---- MODULE Spec2Model ----
(***************************************************************************)
(* Model of system_design_app/main.py: the answer-scoring pipeline of the  *)
(* system-design practice application (SystemDesignApp and GeminiWorker).  *)
(*                                                                         *)
(* Text is modelled as a sequence of atoms.  An atom is either one of the  *)
(* characters the code inspects (":", " ", a newline, a sign, a digit) or  *)
(* a word made of letters only, which behaves as one non-digit character   *)
(* for every operation the code applies to it.                             *)
(***************************************************************************)
EXTENDS Integers, Sequences, FiniteSets, TLC

\* ------------------------------------------------------------------------
\* Bounds
\* ------------------------------------------------------------------------

\* Longest generic reply, in lines, given to the reply parser.
MaxLines == 3

\* ------------------------------------------------------------------------
\* Text primitives (Python str methods used by the code)
\* ------------------------------------------------------------------------

NL == "\n"

Whitespace == {" ", NL}

Digits == {"0", "1", "2", "3", "4", "5", "6", "7", "8", "9"}

DigitValue ==
    [d \in Digits |->
        CASE d = "0" -> 0 [] d = "1" -> 1 [] d = "2" -> 2 [] d = "3" -> 3
          [] d = "4" -> 4 [] d = "5" -> 5 [] d = "6" -> 6 [] d = "7" -> 7
          [] d = "8" -> 8 [] d = "9" -> 9]

Contains(s, c) == \E i \in 1..Len(s) : s[i] = c

\* str.strip(): drops leading and trailing whitespace.
RECURSIVE LStrip(_)
LStrip(s) ==
    IF s # <<>> /\ Head(s) \in Whitespace THEN LStrip(Tail(s)) ELSE s

RECURSIVE RStrip(_)
RStrip(s) ==
    IF s # <<>> /\ s[Len(s)] \in Whitespace
    THEN RStrip(SubSeq(s, 1, Len(s) - 1))
    ELSE s

Strip(s) == RStrip(LStrip(s))

\* str.split(sep) for a one-character separator: always at least one part,
\* empty parts are kept.
RECURSIVE Split(_, _)
Split(s, sep) ==
    IF ~Contains(s, sep)
    THEN <<s>>
    ELSE LET i == CHOOSE k \in 1..Len(s) :
                      s[k] = sep /\ \A j \in 1..(k - 1) : s[j] # sep
         IN  <<SubSeq(s, 1, i - 1)>> \o Split(SubSeq(s, i + 1, Len(s)), sep)

\* int(str): an optional sign followed by one or more digits; anything else
\* raises ValueError.
IntBody(tok) ==
    IF tok # <<>> /\ Head(tok) \in {"+", "-"} THEN Tail(tok) ELSE tok

IsIntLiteral(tok) ==
    /\ IntBody(tok) # <<>>
    /\ \A i \in 1..Len(IntBody(tok)) : IntBody(tok)[i] \in Digits

RECURSIVE DecimalValue(_)
DecimalValue(ds) ==
    IF ds = <<>> THEN 0
    ELSE 10 * DecimalValue(SubSeq(ds, 1, Len(ds) - 1)) + DigitValue[ds[Len(ds)]]

IntValue(tok) ==
    IF tok # <<>> /\ Head(tok) = "-"
    THEN 0 - DecimalValue(IntBody(tok))
    ELSE DecimalValue(IntBody(tok))

\* ------------------------------------------------------------------------
\* json.dump and json.load on strings
\* ------------------------------------------------------------------------

\* The characters json.dump writes as a two-character escape.
JsonEscapes == {"\"", "\\", NL}

\* The character written after the backslash.
JsonEscapeCode(c) == IF c = NL THEN "n" ELSE c

\* One character of a string as json.dump writes it.
JsonEscaped(c) ==
    IF c \in JsonEscapes THEN <<"\\", JsonEscapeCode(c)>> ELSE <<c>>

\* The content of a JSON string literal for the string s.
RECURSIVE JsonEscape(_)
JsonEscape(s) ==
    IF s = <<>> THEN <<>> ELSE JsonEscaped(Head(s)) \o JsonEscape(Tail(s))

\* The string a JSON string literal denotes.
RECURSIVE JsonUnescape(_)
JsonUnescape(t) ==
    IF t = <<>> THEN <<>>
    ELSE IF Head(t) = "\\" /\ Len(t) >= 2
         THEN <<(IF t[2] = "n" THEN NL ELSE t[2])>>
              \o JsonUnescape(SubSeq(t, 3, Len(t)))
         ELSE <<Head(t)>> \o JsonUnescape(Tail(t))

\* ------------------------------------------------------------------------
\* QTextEdit.setText followed by QTextEdit.toPlainText
\* ------------------------------------------------------------------------

\* Markup in the model's texts: one opening and one closing tag.
HtmlOpenTags == {"<b>"}

HtmlTags == {"<b>", "</b>"}

\* setText guesses the format: a text whose first line holds an opening
\* HTML tag is taken as rich text.
MightBeRichText(s) ==
    \E i \in 1..Len(s) :
        /\ s[i] \in HtmlOpenTags
        /\ \A j \in 1..(i - 1) : s[j] # NL

RECURSIVE WithoutTags(_)
WithoutTags(s) ==
    IF s = <<>> THEN <<>>
    ELSE IF Head(s) \in HtmlTags THEN WithoutTags(Tail(s))
    ELSE <<Head(s)>> \o WithoutTags(Tail(s))

\* What toPlainText() returns after setText(s): rich text is rendered and
\* its markup is gone, plain text is kept.  (The model's rich texts hold no
\* whitespace, which rendering would also normalise.)
setText(s) == IF MightBeRichText(s) THEN WithoutTags(s) ELSE s

\* ------------------------------------------------------------------------
\* SystemDesignApp.parse_and_update_grade
\* ------------------------------------------------------------------------

\* line.split(':')[1].split(' ')[0]: the stripping of the text between the
\* first and the second colon is left out.
ScoreStrUnstripped(line) == Split(Split(line, ":")[2], " ")[1]

\* line.split(':')[1].strip().split(' ')[0]
ScoreStr(line) == Split(Strip(Split(line, ":")[2]), " ")[1]

\* The for loop inside the try block: a ValueError raised by int() leaves
\* the loop, and the except clause keeps the total accumulated so far.
RECURSIVE ScoreLines(_, _)
ScoreLines(lines, total_so_far) ==
    IF lines = <<>> THEN total_so_far
    ELSE LET line == Head(lines) IN
         IF ~Contains(line, ":")
         THEN ScoreLines(Tail(lines), total_so_far)
         ELSE IF IsIntLiteral(ScoreStr(line))
              THEN ScoreLines(Tail(lines), total_so_far + IntValue(ScoreStr(line)))
              ELSE total_so_far

parse_and_update_grade(text) == ScoreLines(Split(Strip(text), NL), 0)

\* ------------------------------------------------------------------------
\* Bounds of the application model
\* ------------------------------------------------------------------------

\* Number of questions in canonical_solutions.json.
NumQuestions == 2

\* Number of times the user changes the content of an input field.
MaxEdits == 1

\* Number of times start_analysis dispatches a worker.
MaxCalls == 2

\* ------------------------------------------------------------------------
\* Data
\* ------------------------------------------------------------------------

QuestionNames == <<"q1", "q2", "q3", "q4">>

\* self.questions = list(CANONICAL_SOLUTIONS.keys())
questions == [i \in 1..NumQuestions |-> QuestionNames[i]]

Questions == {questions[i] : i \in 1..NumQuestions}

CANONICAL_SOLUTIONS == [q \in Questions |-> <<"solution", " ", q>>]

\* Python None (the current item of an empty list, an absent worker).
None == "None"

Sections == {"requirements", "architecture", "components", "scalability"}

BLANK == <<"[USER LEFT THIS SECTION BLANK]">>

\* dict.get(key, default)
Get(d, k, default) == IF k \in DOMAIN d THEN d[k] ELSE default

\* {"requirements": "", "architecture": "", "components": "",
\*  "scalability": "", "current_grade": 0}
EmptyRecord ==
    [requirements |-> <<>>, architecture |-> <<>>, components |-> <<>>,
     scalability |-> <<>>, current_grade |-> 0]

\* Texts the user types into an input field, and the fields typed into.
EditTexts == {<<" ", "cache", " ">>}

EditedSections == {"requirements"}

\* ------------------------------------------------------------------------
\* Replies of the scoring API
\* ------------------------------------------------------------------------

RecognizedLabels ==
    {<<"Requirements", " ", "Score">>, <<"Architecture", " ", "Score">>,
     <<"Components", " ", "Score">>, <<"Scalability", " ", "Score">>}

RECURSIVE JoinLines(_)
JoinLines(lines) ==
    IF lines = <<>> THEN <<>>
    ELSE IF Len(lines) = 1 THEN lines[1]
    ELSE lines[1] \o <<NL>> \o JoinLines(Tail(lines))

DigitAtom == [n \in 0..9 |-> CHOOSE d \in Digits : DigitValue[d] = n]

\* "<Label> Score: <int> - <text>"
ScoreLine(label, n, justification) ==
    label \o <<":", " ", DigitAtom[n], " ", "-", " ">> \o justification

\* The reply format the prompt asks for: the four score lines in order, an
\* empty line and the summary.
ExpectedReply(r, a, c, s, justification, summary) ==
    JoinLines(<<ScoreLine(<<"Requirements", " ", "Score">>, r, justification),
                ScoreLine(<<"Architecture", " ", "Score">>, a, justification),
                ScoreLine(<<"Components", " ", "Score">>, c, justification),
                ScoreLine(<<"Scalability", " ", "Score">>, s, justification),
                <<>>,
                summary>>)

\* The same without the empty line before the summary.
CompactReply(r, a, c, s, justification, summary) ==
    JoinLines(<<ScoreLine(<<"Requirements", " ", "Score">>, r, justification),
                ScoreLine(<<"Architecture", " ", "Score">>, a, justification),
                ScoreLine(<<"Components", " ", "Score">>, c, justification),
                ScoreLine(<<"Scalability", " ", "Score">>, s, justification),
                summary>>)

\* Highest score of a section in the rubric.
MaxSectionScore == 4

Justifications ==
    {<<"good">>, <<"ok", ":", " ", "3", " ", "apis", " ", "named">>}

\* Summary lines whose token after the colon is not an integer.
Summaries ==
    {<<"Summary", ":", " ", "fine", ".">>,
     <<"Summary", ":", " ", "1", "0", "/", "1", "6", " ", "overall">>}

\* Lines of the generic replies: a label, a colon and what follows it, or
\* a line without a colon.
GenericLabels ==
    {<<"Requirements", " ", "Score">>, <<"Architecture", " ", "Score">>,
     <<"Note">>}

GenericTails ==
    {<<" ", "3", " ", "-", " ", "good">>, <<" ", "-", "1", " ", "-", " ", "bad">>,
     <<" ", "n/a">>, <<>>, <<"1", "7">>}

GenericLines ==
    {label \o <<":">> \o tail : label \in GenericLabels, tail \in GenericTails}
    \cup {<<>>, <<"garbage">>}

GenericReplies ==
    {JoinLines(ls) : ls \in UNION {[1..k -> GenericLines] : k \in 0..MaxLines}}

\* Replies the API returns in the application model.
ApiReplies ==
    {ExpectedReply(3, 2, 4, 1, <<"good">>, <<"Summary", ":", " ", "fine", ".">>),
     ExpectedReply(4, 4, 4, 4, <<"great">>,
                   <<"Overall", " ", "score", ":", " ", "1", "6", " ", "of", " ", "1", "6">>)}

TimeoutMessage == <<"Request timed out after 6 seconds.">>

\* str(e) of the exceptions the API call raises.
ApiErrors == {<<"429 quota exceeded">>}

\* ------------------------------------------------------------------------
\* State
\* ------------------------------------------------------------------------

VARIABLES
    user_responses,   \* self.user_responses: question -> record
    file,             \* the JSON object in user_responses.json: question ->
                      \* record, its strings as written (escaped)
    current,          \* self.question_list.currentItem(), a question or None
    inputs,           \* the four QTextEdit input fields
    question_label,   \* self.question_label
    grade_label,      \* self.grade_label
    analysis_output,  \* self.analysis_output
    analyze_button,   \* self.analyze_button: enabled flag and text
    worker,           \* self.worker, the GeminiWorker thread
    calls,            \* the _call_gemini_api executions, in dispatch order,
                      \* each "running" or "ended"
    signals,          \* queued finished/error signals for the owner thread
    edits,            \* number of edits made so far
    attempt,          \* history: the start_analysis whose outcome is open or
                      \* was a failure, with the grades it found
    GEMINI_API_KEY,   \* os.environ.get("GEMINI_API_KEY"): a key or None
    question_list,    \* the items of self.question_list
    window,           \* the main window: "shown" or "closed"
    analysis_result,  \* parser harness: the reply given to the parser
    reply_form,       \* parser harness: how the reply was put together
    total_score,      \* parser harness: the total the parser returned
    parse_pc,         \* parser harness: "input", "parsed" or "off"
    responses_file,   \* loader harness: user_responses.json at startup
    loaded,           \* loader harness: outcome of load_or_create_responses
    load_pc           \* loader harness: "input", "loaded" or "off"

vars ==
    <<user_responses, file, current, inputs, question_label, grade_label,
      analysis_output, analyze_button, worker, calls, signals, edits,
      attempt, GEMINI_API_KEY, question_list, window,
      analysis_result, reply_form, total_score, parse_pc,
      responses_file, loaded, load_pc>>

appVars ==
    <<user_responses, file, current, inputs, question_label, grade_label,
      analysis_output, analyze_button, worker, calls, signals, edits,
      attempt, GEMINI_API_KEY, question_list, window>>

parseVars == <<analysis_result, reply_form, total_score, parse_pc>>

loadVars == <<responses_file, loaded, load_pc>>

\* What no handler but closeEvent changes.
envVars == <<GEMINI_API_KEY, question_list, parseVars, loadVars>>

\* ------------------------------------------------------------------------
\* Reading of a reply by the rubric: the section scores it carries
\* ------------------------------------------------------------------------

\* The integer a line carries after its first colon, 0 when it carries none.
LineContribution(line) ==
    IF Contains(line, ":") /\ IsIntLiteral(ScoreStr(line))
    THEN IntValue(ScoreStr(line))
    ELSE 0

\* The text before the first colon of a line.
LineLabel(line) == Strip(Split(line, ":")[1])

HasRecognizedLabel(line) ==
    Contains(line, ":") /\ LineLabel(line) \in RecognizedLabels

RECURSIVE SumOver(_, _)
SumOver(lines, recognizedOnly) ==
    IF lines = <<>> THEN 0
    ELSE (IF recognizedOnly => HasRecognizedLabel(Head(lines))
          THEN LineContribution(Head(lines))
          ELSE 0)
         + SumOver(Tail(lines), recognizedOnly)

\* Sum of the integers on the lines that carry one of the four labels.
SectionSum(text) == SumOver(Split(Strip(text), NL), TRUE)

\* Sum of the integers of all the lines, each line read on its own.
LineSum(text) == SumOver(Split(Strip(text), NL), FALSE)

\* ------------------------------------------------------------------------
\* Response store
\* ------------------------------------------------------------------------

\* load_responses_for_question: what the four input fields hold after
\* setText(responses.get(section, "")).
TextsOf(rec) == [sec \in Sections |-> setText(Get(rec, sec, <<>>))]

WithKey(d, k, v) == [x \in DOMAIN d \cup {k} |-> IF x = k THEN v ELSE d[x]]

\* self.user_responses.get(question, {}).get("current_grade", 0)
GradeOf(store, q) ==
    IF q \in DOMAIN store THEN Get(store[q], "current_grade", 0) ELSE 0

\* Records found in user_responses.json at startup.
SavedRecord ==
    [requirements |-> <<"users">>, architecture |-> <<>>, components |-> <<>>,
     scalability |-> <<>>, current_grade |-> 7]

UngradedRecord ==
    [requirements |-> <<"users">>, architecture |-> <<>>, components |-> <<>>,
     scalability |-> <<>>]

InitialFiles ==
    {[status |-> "missing"],
     [status |-> "corrupt"],
     [status |-> "ok", data |-> [q \in {questions[1]} |-> SavedRecord]],
     [status |-> "ok", data |-> [q \in {questions[1]} |-> UngradedRecord]]}

\* JSON values that are not objects, by their type.  The arrays and the
\* strings among them do not hold the keys the code looks up in them.
JsonArray == [json |-> "array"]

JsonString == [json |-> "string"]

JsonNumber == [json |-> "number"]

JsonNull == [json |-> "null"]

IsObject(v) == "json" \notin DOMAIN v

\* A record as json.dump writes it and as json.load reads it: the strings
\* under the text keys are escaped, the number under current_grade is an
\* integer in both forms.
DumpedRecord(rec) ==
    [k \in DOMAIN rec |->
        IF k = "current_grade" THEN rec[k] ELSE JsonEscape(rec[k])]

LoadedRecord(rec) ==
    [k \in DOMAIN rec |->
        IF k = "current_grade" THEN rec[k] ELSE JsonUnescape(rec[k])]

\* json.dump(self.user_responses, f, indent=2)
json_dump(store) == [q \in DOMAIN store |-> DumpedRecord(store[q])]

\* json.load(f)
json_load(doc) ==
    IF ~IsObject(doc) THEN doc
    ELSE [q \in DOMAIN doc |->
             IF IsObject(doc[q]) THEN LoadedRecord(doc[q]) ELSE doc[q]]

\* Whether the loop over self.questions raises TypeError: a membership
\* test on a number or on null, an item assignment with a string index on
\* an array or on a string.
LoadRaises(responses, qs) ==
    /\ qs # {}
    /\ \/ ~IsObject(responses)
       \/ \E q \in qs \cap DOMAIN responses : ~IsObject(responses[q])

\* load_or_create_responses with self.questions = qs: the store it returns
\* and the file it leaves, or the exception that leaves it.
LoadedStore(f, qs) ==
    IF f.status = "ok"
    THEN LET responses == json_load(f.data) IN
         IF LoadRaises(responses, qs)
         THEN [raised |-> "TypeError", file |-> f.data]
         ELSE [responses |->
                  [q \in DOMAIN responses \cup qs |->
                      IF q \notin DOMAIN responses THEN EmptyRecord
                      ELSE IF q \in qs /\ "current_grade" \notin DOMAIN responses[q]
                           THEN WithKey(responses[q], "current_grade", 0)
                           ELSE responses[q]],
               file |-> f.data]
    ELSE [responses |-> [q \in qs |-> EmptyRecord],
          file |-> json_dump([q \in qs |-> EmptyRecord])]

load_or_create_responses(f) == LoadedStore(f, Questions)

\* save_current_responses that writes the default grade with the fields.
save_current_responses_GradeReset(store, item, fields) ==
    IF item = None THEN store
    ELSE WithKey(store, item,
                 [requirements |-> fields["requirements"],
                  architecture |-> fields["architecture"],
                  components |-> fields["components"],
                  scalability |-> fields["scalability"],
                  current_grade |-> 0])

\* save_current_responses: the store after the call; the file is a dump of
\* it.  With no item the call returns before touching anything.
save_current_responses(store, item, fields) ==
    IF item = None THEN store
    ELSE WithKey(store, item,
                 [requirements |-> fields["requirements"],
                  architecture |-> fields["architecture"],
                  components |-> fields["components"],
                  scalability |-> fields["scalability"],
                  current_grade |-> GradeOf(store, item)])

\* f"Current Grade: {grade}/16"
GradeLabelText(grade) == <<"Current Grade: ", grade, "/16">>

EnabledButton == [enabled |-> TRUE, text |-> "Grade Solution"]

DisabledButton == [enabled |-> FALSE, text |-> "Grading..."]

NoWorker == [state |-> "none"]

NoAttempt == [outcome |-> "none"]

\* ------------------------------------------------------------------------
\* Initial state: SystemDesignApp.__init__
\* ------------------------------------------------------------------------

FirstQuestion == IF NumQuestions > 0 THEN questions[1] ELSE None

\* A key found in the environment.
ApiKey == "key"

ItemsOf(list) == {list[i] : i \in 1..Len(list)}

\* The module constants and SystemDesignApp.__init__ for a responses file
\* f, the questions items of canonical_solutions.json and the value key of
\* the environment variable.  A load that raises leaves no application.
AppStart(f, items, key) ==
    LET result == LoadedStore(f, ItemsOf(items))
        first == IF items = <<>> THEN None ELSE items[1]
    IN
    /\ "raised" \notin DOMAIN result
    /\ GEMINI_API_KEY = key
    /\ question_list = items
    /\ window = "shown"
    /\ user_responses = result.responses
    /\ file = result.file
    /\ worker = NoWorker
    /\ analyze_button = EnabledButton
    \* self.question_list.setCurrentRow(0) runs question_changed(first, None)
    \* when the list has a first item
    /\ current = first
    /\ question_label = (IF first = None THEN <<>> ELSE <<first>>)
    /\ inputs = (IF first = None THEN [sec \in Sections |-> <<>>]
                 ELSE TextsOf(Get(result.responses, first, <<>>)))
    /\ analysis_output = <<>>
    /\ grade_label = (IF first = None THEN GradeLabelText(0)
                      ELSE GradeLabelText(GradeOf(result.responses, first)))
    /\ calls = <<>>
    /\ signals = <<>>
    /\ edits = 0
    /\ attempt = NoAttempt

AppInit(f) == AppStart(f, questions, ApiKey)

ParserOff ==
    /\ analysis_result = <<>>
    /\ reply_form = [kind |-> "none"]
    /\ total_score = 0
    /\ parse_pc = "off"

LoaderOff ==
    /\ responses_file = [status |-> "missing"]
    /\ loaded = [responses |-> <<>>]
    /\ load_pc = "off"

Init ==
    /\ \E f \in InitialFiles : AppInit(f)
    /\ ParserOff
    /\ LoaderOff

\* ------------------------------------------------------------------------
\* Owner-thread handlers
\* ------------------------------------------------------------------------

\* responses.get(section, '') or '[USER LEFT THIS SECTION BLANK]': the
\* text is not stripped.
SectionTextUnstripped(responses, sec) ==
    IF Get(responses, sec, <<>>) = <<>>
    THEN BLANK
    ELSE Get(responses, sec, <<>>)

\* responses.get(section, '').strip() or '[USER LEFT THIS SECTION BLANK]'
SectionText(responses, sec) ==
    IF Strip(Get(responses, sec, <<>>)) = <<>>
    THEN BLANK
    ELSE Strip(Get(responses, sec, <<>>))

\* The user_solution text of start_analysis, by section.
UserSolution(responses) == [sec \in Sections |-> SectionText(responses, sec)]

Grades(store) == [q \in Questions |-> GradeOf(store, q)]

\* The user changes the content of one input field.
Edit(sec, text) ==
    /\ window = "shown"
    /\ edits < MaxEdits
    /\ inputs[sec] # text
    /\ inputs' = [inputs EXCEPT ![sec] = text]
    /\ edits' = edits + 1
    /\ UNCHANGED <<user_responses, file, current, question_label, grade_label,
                   analysis_output, analyze_button, worker, calls, signals,
                   attempt>>
    /\ UNCHANGED <<window, envVars>>

\* What save_current_responses leaves in the file: a dump of the store, or
\* with no item the file as it was.
SavedFile(old_file, store, item) ==
    IF item = None THEN old_file ELSE json_dump(store)

\* The autosave timer fires: save_current_responses().
Autosave ==
    /\ window = "shown"
    /\ user_responses' = save_current_responses(user_responses, current, inputs)
    /\ file' = SavedFile(file, user_responses', current)
    /\ UNCHANGED <<current, inputs, question_label, grade_label,
                   analysis_output, analyze_button, worker, calls, signals,
                   edits, attempt>>
    /\ UNCHANGED <<window, envVars>>

\* The user selects another question: question_changed(new, current).
question_changed(new) ==
    /\ window = "shown"
    /\ new \in ItemsOf(question_list)
    /\ new # current
    /\ user_responses' = save_current_responses(user_responses, current, inputs)
    /\ file' = SavedFile(file, user_responses', current)
    /\ current' = new
    /\ question_label' = <<new>>
    /\ inputs' = TextsOf(Get(user_responses', new, <<>>))
    /\ analysis_output' = <<>>
    /\ grade_label' = GradeLabelText(GradeOf(user_responses', new))
    /\ UNCHANGED <<analyze_button, worker, calls, signals, edits, attempt>>
    /\ UNCHANGED <<window, envVars>>

\* The GeminiWorker made from the record the store held before
\* save_current_responses ran.
DispatchedWorkerBeforeSave(store, question, id) ==
    [state |-> "waiting",
     call |-> id,
     user_solution |-> UserSolution(Get(user_responses, question, <<>>)),
     canonical_solution |-> Get(CANONICAL_SOLUTIONS, question, <<>>)]

\* The GeminiWorker start_analysis makes from the record of the store
\* and starts.
DispatchedWorker(store, question, id) ==
    [state |-> "waiting",
     call |-> id,
     user_solution |-> UserSolution(Get(store, question, <<>>)),
     canonical_solution |-> Get(CANONICAL_SOLUTIONS, question, <<>>)]

\* The user clicks the enabled Grade control: start_analysis, then the
\* worker thread submits _call_gemini_api to its executor and waits.  With
\* no current item, currentItem().text() raises AttributeError after the
\* control was disabled and the save returned early.
start_analysis ==
    /\ window = "shown"
    /\ analyze_button.enabled
    /\ Len(calls) < MaxCalls
    /\ analyze_button' = DisabledButton
    /\ user_responses' = save_current_responses(user_responses, current, inputs)
    /\ file' = SavedFile(file, user_responses', current)
    /\ IF current = None
       THEN UNCHANGED <<worker, calls, attempt>>
       ELSE /\ worker' = DispatchedWorker(user_responses', current, Len(calls) + 1)
            /\ calls' = Append(calls, "running")
            /\ attempt' = [outcome |-> "pending",
                           late |-> "none",
                           grades |-> Grades(user_responses),
                           file_grades |-> Grades(file)]
    /\ UNCHANGED <<current, inputs, question_label, grade_label,
                   analysis_output, signals, edits>>
    /\ UNCHANGED <<window, envVars>>

\* display_scores(analysis_result)
display_scores(text) ==
    LET total == parse_and_update_grade(text)
        graded == [user_responses EXCEPT
                      ![current] = WithKey(@, "current_grade", total)]
    IN  /\ current # None
        /\ analysis_output' = text
        /\ analyze_button' = EnabledButton
        /\ user_responses' = save_current_responses(graded, current, inputs)
        /\ file' = json_dump(user_responses')
        /\ grade_label' = GradeLabelText(total)
        /\ attempt' = (IF attempt.outcome = "succeeded" THEN NoAttempt ELSE attempt)
        /\ UNCHANGED <<current, inputs, question_label, edits>>

\* display_error that shows the message and leaves the control as it is.
display_error_ControlLeftDisabled(message) ==
    /\ analysis_output' = <<"An error occurred: ">> \o message
    /\ UNCHANGED <<user_responses, file, current, inputs, question_label,
                   grade_label, analyze_button, edits, attempt>>

\* display_error(error_message)
display_error(message) ==
    /\ analysis_output' = <<"An error occurred: ">> \o message
    /\ analyze_button' = EnabledButton
    /\ UNCHANGED <<user_responses, file, current, inputs, question_label,
                   grade_label, edits, attempt>>

\* The owner thread's event loop delivers the oldest queued signal to the
\* slot connected in start_analysis.
DeliverFinished ==
    /\ window = "shown"
    /\ signals # <<>>
    /\ Head(signals).kind = "finished"
    /\ display_scores(Head(signals).text)
    /\ signals' = Tail(signals)
    /\ UNCHANGED <<worker, calls>>
    /\ UNCHANGED <<window, envVars>>

DeliverError ==
    /\ window = "shown"
    /\ signals # <<>>
    /\ Head(signals).kind = "error"
    /\ display_error(Head(signals).text)
    /\ signals' = Tail(signals)
    /\ UNCHANGED <<worker, calls>>
    /\ UNCHANGED <<window, envVars>>

\* ------------------------------------------------------------------------
\* GeminiWorker.run and the executor thread running _call_gemini_api
\* ------------------------------------------------------------------------

\* Whether GeminiWorker.run is blocked in future.result() on call id.
WaitsFor(id) == worker.state = "waiting" /\ worker.call = id

\* The signal emitted whether or not run() still waits for the call.
EmittedAtEndAlways(id, kind, text) == <<[kind |-> kind, text |-> text]>>

\* What the end of call id puts on the owner thread's queue: run() emits a
\* signal when it still waits for the call; the result of a call that run()
\* gave up on stays in its future and is never read.
EmittedAtEnd(id, kind, text) ==
    IF WaitsFor(id) THEN <<[kind |-> kind, text |-> text]>> ELSE <<>>

WorkerAfterEnd(id) ==
    IF WaitsFor(id) THEN [worker EXCEPT !.state = "finished"] ELSE worker

\* History: the outcome of the attempt is the signal run() emits for it.
\* When run() has given the call up, how the call ended is recorded.
AttemptAfterEnd(id, outcome) ==
    IF WaitsFor(id)
    THEN [attempt EXCEPT !.outcome = outcome]
    ELSE IF attempt.outcome = "failed" /\ worker.call = id
         THEN [attempt EXCEPT !.late = outcome]
         ELSE attempt

\* _call_gemini_api returns and finished runs its slot in the emitting
\* thread (a direct connection): display_scores runs in the worker thread.
ApiReturnDirect(id, text) ==
    /\ window = "shown"
    /\ GEMINI_API_KEY # None
    /\ calls[id] = "running"
    /\ calls' = [calls EXCEPT ![id] = "ended"]
    /\ worker' = WorkerAfterEnd(id)
    /\ IF WaitsFor(id)
       THEN display_scores(text)
       ELSE UNCHANGED <<user_responses, file, current, inputs, question_label,
                        grade_label, analysis_output, analyze_button, edits,
                        attempt>>
    /\ UNCHANGED signals
    /\ UNCHANGED <<window, envVars>>

\* _call_gemini_api returns response.text: the service answers a request
\* that carries a key.
ApiReturn(id, text) ==
    /\ window = "shown"
    /\ GEMINI_API_KEY # None
    /\ calls[id] = "running"
    /\ calls' = [calls EXCEPT ![id] = "ended"]
    /\ signals' = signals \o EmittedAtEnd(id, "finished", text)
    /\ worker' = WorkerAfterEnd(id)
    /\ attempt' = AttemptAfterEnd(id, "succeeded")
    /\ UNCHANGED <<user_responses, file, current, inputs, question_label,
                   grade_label, analysis_output, analyze_button, edits>>
    /\ UNCHANGED <<window, envVars>>

\* _call_gemini_api raises (no key, transport error, or its own 10 s
\* timeout).
ApiRaise(id, message) ==
    /\ window = "shown"
    /\ calls[id] = "running"
    /\ calls' = [calls EXCEPT ![id] = "ended"]
    /\ signals' = signals \o EmittedAtEnd(id, "error", message)
    /\ worker' = WorkerAfterEnd(id)
    /\ attempt' = AttemptAfterEnd(id, "failed")
    /\ UNCHANGED <<user_responses, file, current, inputs, question_label,
                   grade_label, analysis_output, analyze_button, edits>>
    /\ UNCHANGED <<window, envVars>>

\* future.result(timeout=6.5) raises TimeoutError and run() emits the error
\* but goes on waiting for the call.
WorkerTimeoutKeepsWaiting ==
    /\ window = "shown"
    /\ worker.state = "waiting"
    /\ calls[worker.call] = "running"
    /\ signals = <<>>
    /\ signals' = Append(signals, [kind |-> "error", text |-> TimeoutMessage])
    /\ UNCHANGED <<user_responses, file, current, inputs, question_label,
                   grade_label, analysis_output, analyze_button, worker, calls,
                   edits, attempt>>
    /\ UNCHANGED <<window, envVars>>

\* future.result(timeout=6.5) raises TimeoutError: run() emits the error
\* and returns, the call goes on running in the executor thread.
WorkerTimeout ==
    /\ window = "shown"
    /\ worker.state = "waiting"
    /\ calls[worker.call] = "running"
    /\ signals' = Append(signals, [kind |-> "error", text |-> TimeoutMessage])
    /\ worker' = [worker EXCEPT !.state = "finished"]
    /\ attempt' = AttemptAfterEnd(worker.call, "failed")
    /\ UNCHANGED <<user_responses, file, current, inputs, question_label,
                   grade_label, analysis_output, analyze_button, calls, edits>>
    /\ UNCHANGED <<window, envVars>>

\* ------------------------------------------------------------------------
\* Closing the window
\* ------------------------------------------------------------------------

\* closeEvent(event): save_current_responses(), then the window closes and
\* the process leaves app.exec_().
closeEvent ==
    /\ window = "shown"
    /\ user_responses' = save_current_responses(user_responses, current, inputs)
    /\ file' = SavedFile(file, user_responses', current)
    /\ window' = "closed"
    /\ UNCHANGED <<current, inputs, question_label, grade_label,
                   analysis_output, analyze_button, worker, calls, signals,
                   edits, attempt>>
    /\ UNCHANGED envVars

\* ------------------------------------------------------------------------
\* Specification of the application
\* ------------------------------------------------------------------------

Next ==
    \/ \E sec \in EditedSections, text \in EditTexts : Edit(sec, text)
    \/ Autosave
    \/ \E q \in Questions : question_changed(q)
    \/ start_analysis
    \/ DeliverFinished
    \/ DeliverError
    \/ \E id \in 1..Len(calls), text \in ApiReplies : ApiReturn(id, text)
    \/ \E id \in 1..Len(calls), message \in ApiErrors : ApiRaise(id, message)
    \/ WorkerTimeout
    \/ closeEvent

Spec == Init /\ [][Next]_vars

\* ------------------------------------------------------------------------
\* Specification of the reply parser on its own
\* ------------------------------------------------------------------------

ParseInput ==
    \/ /\ analysis_result \in GenericReplies
       /\ reply_form = [kind |-> "generic"]
    \/ \E r, a, c, s \in 0..MaxSectionScore :
       \E justification \in Justifications, summary \in Summaries :
          /\ analysis_result \in
                {ExpectedReply(r, a, c, s, justification, summary),
                 CompactReply(r, a, c, s, justification, summary)}
          /\ reply_form = [kind |-> "expected", scores |-> <<r, a, c, s>>]

InitParse ==
    /\ AppInit([status |-> "missing"])
    /\ LoaderOff
    /\ ParseInput
    /\ total_score = 0
    /\ parse_pc = "input"

\* total_score = self.parse_and_update_grade(analysis_result)
ParseStep ==
    /\ parse_pc = "input"
    /\ total_score' = parse_and_update_grade(analysis_result)
    /\ parse_pc' = "parsed"
    /\ UNCHANGED <<analysis_result, reply_form>>
    /\ UNCHANGED <<appVars, loadVars>>

NextParse == ParseStep

SpecParse == InitParse /\ [][NextParse]_vars

\* ------------------------------------------------------------------------
\* Properties of the reply parser
\* ------------------------------------------------------------------------

RECURSIVE RecognizedLinesOf(_)
RecognizedLinesOf(lines) ==
    IF lines = <<>> THEN <<>>
    ELSE IF Contains(Head(lines), ":") /\ ~HasRecognizedLabel(Head(lines))
         THEN RecognizedLinesOf(Tail(lines))
         ELSE <<Head(lines)>> \o RecognizedLinesOf(Tail(lines))

\* The reply without its lines that carry a label other than the four.
WithoutOtherLabels(text) == JoinLines(RecognizedLinesOf(Split(Strip(text), NL)))

\* C5: the parser returns, for every reply (empty, without colons, with
\* missing labels, with non-numeric or negative tokens), a total that is an
\* integer >= 0.
C5_TotalNonNegative ==
    parse_pc = "parsed" => total_score \in Nat

\* C6: the total counts only the lines whose text before the first colon is
\* one of the four recognized labels; a line with another label adds nothing
\* to it, so the total is that of the reply without those lines.
C6_OnlyRecognizedLabelsCount ==
    parse_pc = "parsed" =>
        total_score = parse_and_update_grade(WithoutOtherLabels(analysis_result))

\* C7: a line whose token is not an integer is skipped on its own; every
\* other line, before or after it, still adds its integer to the total.
C7_MalformedLineSkippedAlone ==
    parse_pc = "parsed" => total_score = LineSum(analysis_result)

\* C8: for every reply in the expected format (the four score lines in
\* order with scores 0..4, then a summary line whose token after the colon
\* is not an integer) the parser returns the sum of the four scores.
C8_ExpectedFormatTotal ==
    (parse_pc = "parsed" /\ reply_form.kind = "expected") =>
        total_score = reply_form.scores[1] + reply_form.scores[2]
                      + reply_form.scores[3] + reply_form.scores[4]

\* The reply of the specification's scenario parses to 10.
C8_Witness ==
    /\ parse_pc = "parsed"
    /\ reply_form = [kind |-> "expected", scores |-> <<3, 2, 4, 1>>]
    /\ analysis_result =
          CompactReply(3, 2, 4, 1, <<"good">>, <<"Summary", ":", " ", "fine", ".">>)
    /\ total_score = 10

\* ------------------------------------------------------------------------
\* Properties of the application
\* ------------------------------------------------------------------------

\* The application started without a responses file.
InitFresh ==
    /\ AppInit([status |-> "missing"])
    /\ ParserOff
    /\ LoaderOff

SpecFresh == InitFresh /\ [][Next]_vars

RunningCalls == {id \in 1..Len(calls) : calls[id] = "running"}

\* The question that was selected when the worker was dispatched: the one
\* whose canonical solution start_analysis gave to the worker.
DispatchedQuestion ==
    CHOOSE q \in Questions : CANONICAL_SOLUTIONS[q] = worker.canonical_solution

\* The step in which the owner thread runs display_scores.
DisplayScoresStep ==
    /\ signals # <<>>
    /\ Head(signals).kind = "finished"
    /\ signals' = Tail(signals)

\* C1: when display_scores runs for a call dispatched for question A, the
\* parsed total becomes the current_grade of A, in the store and in the
\* file, and the grade of every other question stays as it was, also when
\* another question was selected in between.
C1_GradeGoesToDispatchedQuestion ==
    [][DisplayScoresStep =>
        /\ GradeOf(user_responses', DispatchedQuestion)
              = parse_and_update_grade(Head(signals).text)
        /\ GradeOf(file', DispatchedQuestion)
              = parse_and_update_grade(Head(signals).text)
        /\ \A q \in Questions \ {DispatchedQuestion} :
              GradeOf(user_responses', q) = GradeOf(user_responses, q)]_vars

\* C2: starting without a responses file (every grade 0), the current_grade
\* of every question is the sum of the four section scores of the latest
\* successful reply for that question, or 0 when it has none: display_scores
\* sets the grade of the question the reply was dispatched for to the
\* section sum of the reply and keeps the other grades, and no other step
\* changes a grade.
C2_GradeIsLatestSectionSum ==
    [][IF DisplayScoresStep
       THEN Grades(user_responses') =
               [Grades(user_responses) EXCEPT
                   ![DispatchedQuestion] = SectionSum(Head(signals).text)]
       ELSE Grades(user_responses') = Grades(user_responses)]_vars

\* C3: once a scoring call has timed out or failed, the current_grade of
\* every question, in the store and in the file, is what it was before
\* start_analysis, and stays so when the abandoned API call returns later.
C3_FailureKeepsGrades ==
    attempt.outcome = "failed" =>
        /\ Grades(user_responses) = attempt.grades
        /\ Grades(file) = attempt.file_grades

\* The call timed out, the error was displayed, and the abandoned API call
\* then returned a reply.
C3_Witness ==
    /\ attempt.outcome = "failed"
    /\ attempt.late = "succeeded"
    /\ analyze_button.enabled
    /\ analysis_output = <<"An error occurred: ">> \o TimeoutMessage

\* C4: at most one call of the scoring API is outstanding at any time.
C4_AtMostOneCallOutstanding ==
    Cardinality(RunningCalls) <= 1

\* Letter grade of a total: percentage = total / 16 * 100, each boundary in
\* the higher bucket.
LetterGrade(total) ==
    IF total * 100 >= 95 * 16 THEN "A+"
    ELSE IF total * 100 >= 85 * 16 THEN "A"
    ELSE IF total * 100 >= 75 * 16 THEN "B"
    ELSE IF total * 100 >= 65 * 16 THEN "C"
    ELSE IF total * 100 >= 55 * 16 THEN "C-"
    ELSE IF total * 100 >= 45 * 16 THEN "D"
    ELSE "F"

\* C9: on a successful reply the program derives the letter grade of the
\* total and shows it with the score.
C9_LetterGradeDerived ==
    [][DisplayScoresStep =>
        LetterGrade(grade_label'[2]) \in {grade_label'[1], grade_label'[3]}]_vars

\* C10: the current_grade of every record is an integer in 0..16.
C10_GradeInRange ==
    \A q \in Questions : GradeOf(user_responses, q) \in 0..16

\* ------------------------------------------------------------------------
\* Progress of a scoring call
\* ------------------------------------------------------------------------

\* The step in which the owner thread runs display_error.
DisplayErrorStep ==
    /\ signals # <<>>
    /\ Head(signals).kind = "error"
    /\ signals' = Tail(signals)

\* A signal waits in the queue of the owner thread of the open window.
SignalQueued(kind) ==
    window = "shown" /\ signals # <<>> /\ Head(signals).kind = kind

\* The owner thread's event loop delivers every queued signal to its slot
\* (weak fairness of DeliverFinished and of DeliverError, written with the
\* condition under which each is enabled), and future.result(timeout=6.5)
\* returns or raises within 6.5 s.
Fairness ==
    /\ []<>(~SignalQueued("finished")) \/ []<><<DeliverFinished>>_vars
    /\ []<>(~SignalQueued("error")) \/ []<><<DeliverError>>_vars
    /\ WF_vars(WorkerTimeout)

SpecLive == InitFresh /\ [][Next]_vars /\ Fairness

\* C11: after start_analysis has disabled the Grade control for a
\* dispatched call, the control is eventually enabled again, unless the
\* user closes the window first; display_error enables it and dispatches
\* no call.
C11_ControlEventuallyRestored ==
    /\ (~analyze_button.enabled) ~> (analyze_button.enabled \/ window = "closed")
    /\ [][DisplayErrorStep => (analyze_button'.enabled /\ calls' = calls)]_vars

\* A call failed, its error was displayed and the control is enabled.
C11_Witness ==
    /\ window = "shown"
    /\ calls = <<"ended">>
    /\ signals = <<>>
    /\ analyze_button = EnabledButton
    /\ analysis_output = <<"An error occurred: ", "429 quota exceeded">>

\* ------------------------------------------------------------------------
\* The process environment
\* ------------------------------------------------------------------------

\* The application started without a responses file, with or without the
\* key in the environment, with the questions of canonical_solutions.json
\* or with none.
InitEnv ==
    /\ \E key \in {None, ApiKey}, items \in {questions, <<>>} :
          AppStart([status |-> "missing"], items, key)
    /\ ParserOff
    /\ LoaderOff

SpecEnv == InitEnv /\ [][Next]_vars

\* The output shows the failure of a scoring call.
ErrorDisplayed ==
    analysis_output # <<>> /\ Head(analysis_output) = "An error occurred: "

\* C12: without the key in the environment the program stops at startup:
\* no window is shown, no scoring call is dispatched and no failure of a
\* scoring call is displayed.
C12_MissingKeyStopsStartup ==
    GEMINI_API_KEY = None =>
        /\ window # "shown"
        /\ calls = <<>>
        /\ ~ErrorDisplayed

\* C20: with no question selected (an empty canonical-solutions set),
\* whatever the user clicks, no scoring call is dispatched, the store and
\* the file stay as startup left them, and the Grade control stays enabled.
C20_NoSelectionStaysIdle ==
    current = None =>
        /\ calls = <<>>
        /\ worker = NoWorker
        /\ user_responses = LoadedStore([status |-> "missing"], {}).responses
        /\ file = LoadedStore([status |-> "missing"], {}).file
        /\ analyze_button = EnabledButton

\* ------------------------------------------------------------------------
\* The responses file of an earlier session
\* ------------------------------------------------------------------------

\* Answers of an earlier session: a text with markup, one of whitespace
\* only, one with characters that JSON escapes and with space around it,
\* an empty one.
RichRecord ==
    [requirements |-> <<"<b>", "users", "</b>">>,
     architecture |-> <<" ", NL>>,
     components |-> <<NL, "queue", "\\", "n", "\"", " ">>,
     scalability |-> <<>>,
     current_grade |-> 7]

PlainRecord ==
    [requirements |-> <<"reads", NL, "writes">>,
     architecture |-> <<>>,
     components |-> <<>>,
     scalability |-> <<"\"", "shard", "\"">>,
     current_grade |-> 3]

\* The store of the earlier session and the file that session wrote.
EarlierStore ==
    [q \in Questions |-> IF q = questions[1] THEN RichRecord ELSE PlainRecord]

EarlierFile == [status |-> "ok", data |-> json_dump(EarlierStore)]

InitStore ==
    /\ AppInit(EarlierFile)
    /\ ParserOff
    /\ LoaderOff

SpecStore == InitStore /\ [][Next]_vars

\* The store load_or_create_responses returns for a file with content doc.
Reloaded(doc) == load_or_create_responses([status |-> "ok", data |-> doc]).responses

\* C13: the file, reloaded, gives the four text fields and the grade that
\* the store holds for every question; and as long as the user has edited
\* nothing and no grade was given, every save writes a file equivalent to
\* the one before it, so to the file that was loaded.
C13_StoreRoundTrip ==
    /\ [](\A q \in Questions : Reloaded(file)[q] = user_responses[q])
    /\ [][(edits' = 0 /\ calls' = <<>>) => Reloaded(file') = Reloaded(file)]_vars

\* ------------------------------------------------------------------------
\* Specification of load_or_create_responses on its own
\* ------------------------------------------------------------------------

\* A record with the grade only.
GradeOnlyRecord == [current_grade |-> 5]

\* What a file holds under a question.
RecordShapes ==
    {SavedRecord, UngradedRecord, GradeOnlyRecord,
     JsonArray, JsonString, JsonNumber, JsonNull}

\* The files found at startup: none, one that is not JSON, JSON that is
\* not an object, and objects with any of the shapes under some of the
\* questions.
StartupFiles ==
    {[status |-> "missing"], [status |-> "corrupt"]}
    \cup {[status |-> "ok", data |-> v] :
             v \in {JsonArray, JsonString, JsonNumber, JsonNull}}
    \cup {[status |-> "ok", data |-> d] :
             d \in UNION {[Q -> RecordShapes] : Q \in SUBSET Questions}}

InitLoad ==
    /\ AppInit([status |-> "missing"])
    /\ ParserOff
    /\ responses_file \in StartupFiles
    /\ loaded = [responses |-> <<>>]
    /\ load_pc = "input"

\* self.user_responses = self.load_or_create_responses()
LoadStep ==
    /\ load_pc = "input"
    /\ loaded' = load_or_create_responses(responses_file)
    /\ load_pc' = "loaded"
    /\ UNCHANGED <<responses_file, appVars, parseVars>>

NextLoad == LoadStep

SpecLoad == InitLoad /\ [][NextLoad]_vars

CompleteRecord(rec) ==
    IsObject(rec) /\ (Sections \cup {"current_grade"}) \subseteq DOMAIN rec

\* C14: whatever the file at startup (missing, not JSON, JSON of the wrong
\* shape), load_or_create_responses returns, and the store it returns holds
\* a complete record, four text fields and current_grade, for every
\* question.
C14_LoadAlwaysGivesCompleteStore ==
    load_pc = "loaded" =>
        /\ "raised" \notin DOMAIN loaded
        /\ \A q \in Questions :
              /\ q \in DOMAIN loaded.responses
              /\ CompleteRecord(loaded.responses[q])

\* ------------------------------------------------------------------------
\* Specification of the prompt built by start_analysis
\* ------------------------------------------------------------------------

\* Contents of an input field: empty, whitespace only, a text with
\* whitespace around it, a text without.
PromptTexts == {<<>>, <<" ", NL>>, <<NL, "load", " ", "balancer", " ">>, <<"users">>}

\* The application shows the first question with the answers of an earlier
\* session in the four fields.
InitPrompt ==
    /\ \E texts \in [Sections -> PromptTexts] :
          AppInit([status |-> "ok",
                   data |-> json_dump([q \in {questions[1]} |->
                                          WithKey(texts, "current_grade", 0)])])
    /\ ParserOff
    /\ LoaderOff

\* The user edits a field or not, and clicks the Grade control.
NextPrompt ==
    \/ \E sec \in EditedSections, text \in EditTexts : Edit(sec, text)
    \/ start_analysis

SpecPrompt == InitPrompt /\ [][NextPrompt]_vars

\* The step in which start_analysis dispatches a worker.
DispatchStep == Len(calls') = Len(calls) + 1

\* C15: in the user solution start_analysis gives to the worker, each of
\* the four sections is the literal '[USER LEFT THIS SECTION BLANK]' when
\* the input field, at the click, is empty or holds whitespace only, and
\* else the content of the field with the whitespace around it removed.
C15_PromptSectionsBlankOrTrimmed ==
    [][DispatchStep =>
        \A sec \in Sections :
            worker'.user_solution[sec] =
                (IF \A i \in 1..Len(inputs[sec]) : inputs[sec][i] \in Whitespace
                 THEN BLANK
                 ELSE Strip(inputs[sec]))]_vars

\* A worker was dispatched with an edited and trimmed section, a trimmed
\* section of the earlier session, and the sentinel for a whitespace-only
\* and for an empty section.
C15_Witness ==
    /\ worker.state = "waiting"
    /\ edits = 1
    /\ worker.user_solution =
          [requirements |-> <<"cache">>,
           architecture |-> <<"load", " ", "balancer">>,
           components |-> BLANK,
           scalability |-> BLANK]
    /\ inputs["components"] = <<" ", NL>>
    /\ inputs["scalability"] = <<>>

\* ------------------------------------------------------------------------
\* Threads
\* ------------------------------------------------------------------------

\* A step of the worker thread or of its executor thread: a call ends, or
\* run() stops waiting.
WorkerThreadStep ==
    \/ Len(calls') = Len(calls) /\ calls' # calls
    \/ worker.state = "waiting" /\ worker' = [worker EXCEPT !.state = "finished"]

\* C16: a step of the worker thread changes neither the store nor the file
\* nor what the window displays; a grade changes only in the step in which
\* the owner thread takes the finished signal from its queue; and every
\* step that writes the store or the file is one whole save, which leaves
\* in the file the dump of the store, so no two saves interleave.
C16_StoreWrittenByOwnerThreadOnly ==
    [][/\ WorkerThreadStep =>
            UNCHANGED <<user_responses, file, inputs, question_label,
                        grade_label, analysis_output, analyze_button>>
       /\ Grades(user_responses') # Grades(user_responses) => DisplayScoresStep
       /\ (user_responses' # user_responses \/ file' # file) =>
            file' = json_dump(user_responses')]_vars

\* The worker has emitted finished, the signal waits in the queue, and the
\* owner thread has saved an edit in between: the grade is not yet changed.
C16_Witness ==
    /\ SignalQueued("finished")
    /\ worker.state = "finished"
    /\ user_responses[current]["requirements"] = <<" ", "cache", " ">>
    /\ file = json_dump(user_responses)
    /\ Grades(user_responses) = [q \in Questions |-> 0]

\* ------------------------------------------------------------------------
\* Order of the steps of start_analysis
\* ------------------------------------------------------------------------

\* C17: when start_analysis dispatches a worker, the fields of the selected
\* question are in its record of the store and the store is in the file;
\* the user solution of the worker is built from that persisted record and
\* its canonical solution is that of the same question; and the control is
\* disabled as long as the worker waits for its call.
C17_SavedThenBuiltThenDispatched ==
    /\ [][DispatchStep =>
            /\ \A sec \in Sections : user_responses'[current][sec] = inputs[sec]
            /\ file' = json_dump(user_responses')
            /\ worker'.user_solution = UserSolution(Reloaded(file')[current])
            /\ worker'.canonical_solution = CANONICAL_SOLUTIONS[current]
            /\ ~analyze_button'.enabled]_vars
    /\ [](worker.state = "waiting" => ~analyze_button.enabled)

\* A worker was dispatched right after an edit that no save had stored: the
\* edit is in the file and, trimmed, in the user solution.
C17_Witness ==
    /\ worker.state = "waiting"
    /\ ~analyze_button.enabled
    /\ current = questions[1]
    /\ file[current]["requirements"] = <<" ", "cache", " ">>
    /\ file[current]["components"] = JsonEscape(RichRecord.components)
    /\ worker.user_solution =
          [requirements |-> <<"cache">>,
           architecture |-> BLANK,
           components |-> <<"queue", "\\", "n", "\"">>,
           scalability |-> BLANK]

\* ------------------------------------------------------------------------
\* Completion signals of a worker
\* ------------------------------------------------------------------------

\* run() of the dispatched worker returns.
RunReturns ==
    worker.state = "waiting" /\ worker' = [worker EXCEPT !.state = "finished"]

\* One signal, finished or error, is put at the end of the queue.
SignalAppended ==
    /\ Len(signals') = Len(signals) + 1
    /\ SubSeq(signals', 1, Len(signals)) = signals
    /\ signals'[Len(signals')].kind \in {"finished", "error"}

\* C18: every dispatched worker emits exactly one completion signal: a
\* signal, finished or error, is put on the queue in the step in which
\* run() returns and in no other step, one signal per step, and run() of
\* every dispatched worker returns (unless the window is closed first),
\* whether the call returns, raises or outlasts the wait.
C18_ExactlyOneCompletionSignal ==
    /\ [][(RunReturns => SignalAppended)
           /\ (Len(signals') > Len(signals) => RunReturns)]_vars
    /\ (worker.state = "waiting") ~> (worker.state = "finished" \/ window = "closed")

\* run() gave up after 6.5 s and emitted the error; the abandoned call ended
\* afterwards and put no second signal on the queue.
C18_Witness ==
    /\ worker.state = "finished"
    /\ calls = <<"ended">>
    /\ signals = <<[kind |-> "error", text |-> TimeoutMessage]>>

\* ------------------------------------------------------------------------
\* Frame of save_current_responses
\* ------------------------------------------------------------------------

\* C19: every step that writes the store or the file (autosave, question
\* switch, start_analysis, close, display_scores) writes one record only,
\* that of the question selected before the step, on a switch the question
\* being left: its four text fields become the contents of the input
\* fields, its current_grade stays (in display_scores, stays the total just
\* written), and every other record stays as it was.
C19_SaveWritesOneRecord ==
    [][(user_responses' # user_responses \/ file' # file) =>
        /\ DOMAIN user_responses' = DOMAIN user_responses
        /\ \A q \in DOMAIN user_responses \ {current} :
              user_responses'[q] = user_responses[q]
        /\ DOMAIN user_responses'[current] = Sections \cup {"current_grade"}
        /\ \A sec \in Sections : user_responses'[current][sec] = inputs[sec]
        /\ user_responses'[current]["current_grade"] =
              (IF DisplayScoresStep
               THEN parse_and_update_grade(Head(signals).text)
               ELSE user_responses[current]["current_grade"])]_vars

\* The user edited the first question and switched to the second: the edit
\* is stored under the first question with its grade, the second record is
\* as the earlier session left it.
C19_Witness ==
    /\ current = questions[2]
    /\ edits = 1
    /\ user_responses[questions[1]] =
          [RichRecord EXCEPT !.requirements = <<" ", "cache", " ">>]
    /\ user_responses[questions[2]] = PlainRecord
    /\ inputs = TextsOf(PlainRecord)

====
